---- MODULE Spec2Model ----
(***************************************************************************)
(* expiredWaiverDeletion.py: find the waivers of a CSV export whose        *)
(* 'Expiration Date' has passed and delete them through the IQ Server      *)
(* policy waiver API after the operator typed DELETE.                      *)
(*                                                                         *)
(* The script is one sequential process. Its state is the data frame, the  *)
(* sampled clock, the list of expired waivers, the operator's answer, the  *)
(* two counters and the positions of its two loops. The requests sent to   *)
(* the server and the prompts shown are recorded in history variables.     *)
(***************************************************************************)
EXTENDS Integers, Sequences, FiniteSets, TLC

\* Largest number of rows of the CSV export.
MaxRows == 2

(***************************************************************************)
(* Values of CSV cells                                                     *)
(***************************************************************************)
\* A missing cell as pandas reads it (float nan).
NaN == "NaN"

\* 'Waiver Id' cells.
WaiverIdCells == {NaN, "W1"}

\* 'Scope Type' cells.
ScopeTypeCells == {"root_organization", "unknown_kind"}

\* 'Scope Id' cells.
ScopeIdCells == {NaN, "org-1"}

\* An 'Expiration Date' cell. form "nan" is the missing cell; otherwise the
\* cell is a text: form "seconds" is YYYY-MM-DDTHH:MM:SS, form "fraction" is
\* YYYY-MM-DDTHH:MM:SS.ffffff, form "other" is any other text, each followed
\* by its zone designator: "Z", a numeric "offset" (+HH:MM, off hours east),
\* or "none". secs and frac are the wall-clock reading the text spells.
ExpiryCell(form, secs, frac, zone, off) ==
    [form |-> form, secs |-> secs, frac |-> frac, zone |-> zone, off |-> off]

ExpiryNaN == ExpiryCell("nan", 0, 0, "none", 0)

\* "banana"
ExpiryBanana == ExpiryCell("other", 0, 0, "none", 0)

\* The 'Expiration Date' cells of the exports explored.
ExpiryCells ==
    { ExpiryNaN,
      ExpiryBanana,
      ExpiryCell("seconds", 0, 0, "Z", 0),
      ExpiryCell("seconds", 2, 0, "offset", 1) }

\* pd.isna on a 'Waiver Id' or 'Scope Id' cell.
pd_isna(cell) == cell = NaN

\* pd.isna on an 'Expiration Date' cell.
pd_isna_expiry(cell) == cell.form = "nan"

\* One row of the data frame.
Rows ==
    [ WaiverId : WaiverIdCells, ScopeType : ScopeTypeCells,
      ScopeId : ScopeIdCells, ExpirationDate : ExpiryCells ]

\* Sequences of at most n elements of S.
SeqUpTo(S, n) == UNION { [1..k -> S] : k \in 0..n }

\* The data frames pd.read_csv can return.
DataFrames == SeqUpTo(Rows, MaxRows)

(***************************************************************************)
(* Instants                                                                *)
(***************************************************************************)
\* An aware datetime normalised to UTC: whole seconds and the fraction.
Instant(s, f) == [s |-> s, f |-> f]

\* datetime.__lt__ on two aware datetimes.
Earlier(a, b) == a.s < b.s \/ (a.s = b.s /\ a.f < b.f)

\* The readings datetime.now(timezone.utc) can give. Against the one reading
\* explored the cells of ExpiryCells spell an earlier instant (second 0) and
\* the very same instant (02 at +01:00).
ClockReadings == { Instant(1, 0) }

\* None, as parse_waiver_datetime returns it.
None == [ok |-> FALSE, at |-> Instant(0, 0)]

Parsed(i) == [ok |-> TRUE, at |-> i]

\* datetime_str.endswith('Z')
endswithZ(text) == text.zone = "Z"

ParseMicrosecondsMutant(text) ==
    IF text.form = "fraction" /\ text.zone \in {"Z", "offset"}
    THEN Parsed(Instant(text.secs - text.off, text.frac))
    ELSE None

\* The except ValueError branch: the text with microseconds.
ParseMicroseconds(text) ==
    IF endswithZ(text)
    THEN IF text.form = "fraction" THEN Parsed(Instant(text.secs, text.frac))
         ELSE None
    ELSE None

ParseWallClockMutant(text) ==
    IF pd_isna_expiry(text) THEN None
    ELSE IF text.form = "seconds" /\ text.zone \in {"Z", "offset"}
         THEN Parsed(Instant(text.secs, 0))
         ELSE ParseMicroseconds(text)

\* parse_waiver_datetime
parse_waiver_datetime(text) ==
    IF pd_isna_expiry(text) THEN None
    ELSE IF endswithZ(text)
         THEN IF text.form = "seconds" THEN Parsed(Instant(text.secs, 0))
              ELSE ParseMicroseconds(text)
         ELSE IF text.form = "seconds" /\ text.zone = "offset"
              THEN Parsed(Instant(text.secs - text.off, 0))
              ELSE ParseMicroseconds(text)

IsExpiredMutant(expiry_time, now) == ~ Earlier(now, expiry_time)

\* expiry_time < current_utc_time
IsExpired(expiry_time, now) == Earlier(expiry_time, now)

(***************************************************************************)
(* Scope mapping and the API helper                                        *)
(***************************************************************************)
SCOPE_TYPE_MAP ==
    [ k \in { "root_organization", "organization", "application", "repository",
              "repository_container" } |->
        IF k = "root_organization" THEN "organization" ELSE k ]

NoScope == "None"

ScopeGetMutant(scope_type) ==
    IF scope_type \in DOMAIN SCOPE_TYPE_MAP THEN SCOPE_TYPE_MAP[scope_type]
    ELSE scope_type

ScopeGetKeyMutant(scope_type) ==
    IF scope_type \in DOMAIN SCOPE_TYPE_MAP THEN scope_type ELSE NoScope

\* SCOPE_TYPE_MAP.get(original_scope_type)
ScopeGet(scope_type) ==
    IF scope_type \in DOMAIN SCOPE_TYPE_MAP THEN SCOPE_TYPE_MAP[scope_type]
    ELSE NoScope

\* What one requests.request call meets: a transport failure, or a response
\* with a status and a body. body "json_true" is JSON text of a truthy value,
\* "json_false" JSON text of a falsy value ([], {}, null, false, 0, "").
Response(transport, status, body) ==
    [transport |-> transport, status |-> status, body |-> body]

Responses ==
    { Response("timeout", 0, "empty"),
      Response("connection_error", 0, "empty"),
      Response("ok", 204, "empty"),
      Response("ok", 200, "empty"),
      Response("ok", 200, "json_true"),
      Response("ok", 200, "json_false"),
      Response("ok", 200, "not_json"),
      Response("ok", 404, "json_true") }

NoResponse == Response("none", 0, "empty")

IsHttpErrorMutant(status) == status >= 500 /\ status < 600

\* response.raise_for_status() raises HTTPError
IsHttpError(status) == status >= 400 /\ status < 600

\* make_api_request: its return value, "True", "[]", "json_true",
\* "json_false" or "None".
make_api_request(method, response) ==
    IF response.transport # "ok" THEN "None"
    ELSE IF IsHttpError(response.status) THEN "None"
    ELSE IF response.status = 204 /\ method = "DELETE" THEN "True"
    ELSE IF response.status = 200 /\ response.body = "empty" THEN "[]"
    ELSE IF response.body \in {"json_true", "json_false"} THEN response.body
    ELSE "None"

\* if success:
Truthy(value) == value \in {"True", "json_true"}

(***************************************************************************)
(* The operator's answer                                                   *)
(***************************************************************************)
\* The characters str.strip removes.
IsSpace(c) == c \in {" ", "\t"}

RECURSIVE lstrip(_)
lstrip(s) ==
    IF s # <<>> /\ IsSpace(Head(s)) THEN lstrip(Tail(s)) ELSE s

RECURSIVE rstrip(_)
rstrip(s) ==
    IF s # <<>> /\ IsSpace(s[Len(s)]) THEN rstrip(SubSeq(s, 1, Len(s) - 1)) ELSE s

\* str.strip
strip(s) == lstrip(rstrip(s))

UpperChar(c) ==
    CASE c = "d" -> "D" [] c = "e" -> "E" [] c = "l" -> "L" [] c = "t" -> "T"
      [] c = "n" -> "N" [] c = "o" -> "O" [] c = "y" -> "Y" [] c = "s" -> "S"
      [] OTHER -> c

\* str.upper
upper(s) == [i \in 1..Len(s) |-> UpperChar(s[i])]

\* What the operator can type at the prompt.
Answers ==
    { <<"D", "E", "L", "E", "T", "E">>,
      <<" ", "d", "e", "l", "e", "t", "e", " ">>,
      <<"n", "o">>,
      <<>> }

ConfirmedMutant(answer) == answer # <<>>

ConfirmedUntrimmedMutant(answer) == upper(answer) = <<"D", "E", "L", "E", "T", "E">>

\* confirm.strip().upper() == "DELETE"
Confirmed(answer) == upper(strip(answer)) = <<"D", "E", "L", "E", "T", "E">>

(***************************************************************************)
(* The script                                                              *)
(***************************************************************************)
VARIABLES
    pc,                        \* where the script is
    df_waivers,                \* the rows pd.read_csv returned
    current_utc_time,          \* the clock reading of line 132
    row_i,                     \* the row df_waivers.iterrows() yields next
    expiry_time,               \* what parse_waiver_datetime returned last
    expired_waivers_to_delete, \* the list built by the identification loop
    confirm,                   \* the answer input() returned
    deleted_count,
    failed_count,
    del_i,                     \* the entry the deletion loop takes next
    response,                  \* history: what the last request met
    api_calls,                 \* history: the requests sent, in order
    prompts,                   \* history: the input() calls, see Prompt
    processed,                 \* history: the entries the deletion loop took
    marked,                    \* history: the rows the entries were made from
    skipped                    \* history: the WARN lines of line 145

vars ==
    << pc, df_waivers, current_utc_time, row_i, expired_waivers_to_delete,
       confirm, deleted_count, failed_count, del_i, response, api_calls,
       prompts, processed, marked, expiry_time, skipped >>

\* The state when the script starts. deleted_count and failed_count are
\* bound by lines 183-184 only; until then they stand at 0 waivers counted.
Init ==
    /\ pc = "find_csv"
    /\ df_waivers = <<>>
    /\ current_utc_time = Instant(0, 0)
    /\ row_i = 1
    /\ expired_waivers_to_delete = <<>>
    /\ confirm = <<>>
    /\ deleted_count = 0
    /\ failed_count = 0
    /\ del_i = 1
    /\ response = NoResponse
    /\ api_calls = <<>>
    /\ prompts = <<>>
    /\ processed = <<>>
    /\ marked = <<>>
    /\ expiry_time = None
    /\ skipped = <<>>

\* glob.glob(CSV_PATTERN): exactly one file, or sys.exit(1).
FindCsv ==
    /\ pc = "find_csv"
    /\ \E matching_files \in {"none", "one", "many"} :
         pc' = IF matching_files = "one" THEN "load_csv" ELSE "exit"
    /\ UNCHANGED << df_waivers, current_utc_time, row_i, expired_waivers_to_delete,
                    confirm, deleted_count, failed_count, del_i, response,
                    api_calls, prompts, processed, marked, expiry_time, skipped >>

\* pd.read_csv and the check of the essential columns: a data frame, or
\* sys.exit(1).
LoadCsvFrom(frames) ==
    /\ pc = "load_csv"
    /\ \/ /\ pc' = "exit"
          /\ UNCHANGED df_waivers
       \/ /\ \E df \in frames : df_waivers' = df
          /\ pc' = "sample_clock"
    /\ UNCHANGED << current_utc_time, row_i, expired_waivers_to_delete, confirm,
                    deleted_count, failed_count, del_i, response, api_calls,
                    prompts, processed, marked, expiry_time, skipped >>

\* The script on the exports of DataFrames.
LoadCsv == LoadCsvFrom(DataFrames)

\* expired_waivers_to_delete = []; current_utc_time = datetime.now(timezone.utc)
SampleClockAt(readings) ==
    /\ pc = "sample_clock"
    /\ expired_waivers_to_delete' = <<>>
    /\ \E now \in readings : current_utc_time' = now
    /\ row_i' = 1
    /\ pc' = "identify"
    /\ marked' = <<>>
    /\ UNCHANGED << df_waivers, confirm, deleted_count, failed_count, del_i,
                    response, api_calls, prompts, processed, expiry_time,
                    skipped >>

\* The script at the clock readings of ClockReadings.
SampleClock == SampleClockAt(ClockReadings)

\* The entry appended for a row (its display-only 'Component Name' left out).
Entry(row) == row

ExhaustedMutant(i, rows) == i > Len(rows) \/ i > 1

\* The iterator of the for statement has no row left.
Exhausted(i, rows) == i > Len(rows)

\* The body of the identification loop decides to append the row.
Marked(row, now) ==
    /\ ~ pd_isna_expiry(row.ExpirationDate)
    /\ LET parsed == parse_waiver_datetime(row.ExpirationDate)
       IN  /\ parsed.ok
           /\ IsExpired(parsed.at, now)

appendMutant(list, item) == <<item>> \o list

\* list.append
append(list, item) == Append(list, item)

\* The WARN line printed for a row whose expiration does not parse.
Warning(row, i) == [row |-> i, id |-> row.WaiverId, raw |-> row.ExpirationDate]

NextRowMutant(i, n, unparseable) == IF unparseable THEN n + 1 ELSE i + 1

\* The for statement yields the next row, after a continue as after the end
\* of the body.
NextRow(i, n, unparseable) == i + 1

\* One iteration of for index, row in df_waivers.iterrows().
IdentifyRow ==
    /\ pc = "identify"
    /\ ~ Exhausted(row_i, df_waivers)
    /\ LET row == df_waivers[row_i]
           expiry_date_str == row.ExpirationDate
           parsed == parse_waiver_datetime(expiry_date_str)
           n == Len(df_waivers)
       IN  /\ expiry_time' =
                  IF pd_isna_expiry(expiry_date_str) THEN expiry_time ELSE parsed
           /\ skipped' =
                  IF ~ pd_isna_expiry(expiry_date_str) /\ ~ parsed.ok
                  THEN Append(skipped, Warning(row, row_i))
                  ELSE skipped
           /\ IF Marked(row, current_utc_time)
              THEN /\ expired_waivers_to_delete' =
                          append(expired_waivers_to_delete, Entry(row))
                   /\ marked' = append(marked, row_i)
              ELSE UNCHANGED << expired_waivers_to_delete, marked >>
           /\ row_i' = NextRow(row_i, n,
                              ~ pd_isna_expiry(expiry_date_str) /\ ~ parsed.ok)
    /\ UNCHANGED << pc, df_waivers, current_utc_time, confirm, deleted_count,
                    failed_count, del_i, response, api_calls, prompts, processed >>

NothingToDeleteMutant(expired) == FALSE

\* not expired_waivers_to_delete
NothingToDelete(expired) == expired = <<>>

\* The identification loop is over and nothing was marked.
NoExpired ==
    /\ pc = "identify"
    /\ Exhausted(row_i, df_waivers)
    /\ NothingToDelete(expired_waivers_to_delete)
    /\ pc' = "finished"
    /\ UNCHANGED << df_waivers, current_utc_time, row_i, expired_waivers_to_delete,
                    confirm, deleted_count, failed_count, del_i, response,
                    api_calls, prompts, processed, marked, expiry_time, skipped >>

PromptMutant(rows_done, listed, calls) ==
    [rows_done |-> rows_done, listed |-> SubSeq(listed, 1, 1), calls |-> calls]

\* What is recorded of one input() call: the rows identified before it, the
\* waivers listed to the operator and the requests sent before it.
Prompt(rows_done, listed, calls) ==
    [rows_done |-> rows_done, listed |-> listed, calls |-> calls]

\* The identification loop is over: list the expired waivers, ask, and either
\* bind the counters and enter the deletion loop or cancel.
ConfirmPromptWith(answers) ==
    /\ pc = "identify"
    /\ Exhausted(row_i, df_waivers)
    /\ ~ NothingToDelete(expired_waivers_to_delete)
    /\ prompts' = Append(prompts,
           Prompt(row_i - 1, expired_waivers_to_delete, Len(api_calls)))
    /\ \E answer \in answers :
         /\ confirm' = answer
         /\ IF Confirmed(answer)
            THEN /\ deleted_count' = 0
                 /\ failed_count' = 0
                 /\ del_i' = 1
                 /\ pc' = "delete"
            ELSE /\ pc' = "finished"
                 /\ UNCHANGED << deleted_count, failed_count, del_i >>
    /\ UNCHANGED << df_waivers, current_utc_time, row_i, expired_waivers_to_delete,
                    response, api_calls, processed, marked, expiry_time,
                    skipped >>

\* The script with the answers of Answers.
ConfirmPrompt == ConfirmPromptWith(Answers)

MissingScopeIdMutant(owner_id) == owner_id = ""

\* pd.isna(owner_id) or not owner_id
MissingScopeId(owner_id) == pd_isna(owner_id) \/ owner_id = ""

CountFailureMutant(count) == count

\* failed_count += 1
CountFailure(count) == count + 1

\* deleted_count += 1
CountDeleted(count) == count + 1

NextEntryMutant(i, n, failed) == IF failed THEN n + 1 ELSE i + 1

\* The for statement takes the next entry, after a continue as after the
\* end of the body.
NextEntry(i, n, failed) == i + 1

\* The request of one make_api_request("DELETE", endpoint, auth) call.
Request(delete_scope_type, owner_id, waiver_id, i) ==
    [ method |-> "DELETE",
      endpoint |-> << "policyWaivers", delete_scope_type, owner_id, waiver_id >>,
      entry |-> i ]

\* One iteration of for waiver in expired_waivers_to_delete, the request and
\* its answer included.
DeleteIteration ==
    /\ pc = "delete"
    /\ del_i <= Len(expired_waivers_to_delete)
    /\ LET waiver == expired_waivers_to_delete[del_i]
           waiver_id == waiver.WaiverId
           original_scope_type == waiver.ScopeType
           owner_id == waiver.ScopeId
           delete_scope_type == ScopeGet(original_scope_type)
           n == Len(expired_waivers_to_delete)
       IN  IF delete_scope_type = NoScope \/ MissingScopeId(owner_id)
           THEN /\ failed_count' = CountFailure(failed_count)
                /\ del_i' = NextEntry(del_i, n, TRUE)
                /\ UNCHANGED << deleted_count, response, api_calls >>
           ELSE \E met \in Responses :
                  LET success == make_api_request("DELETE", met)
                  IN  /\ response' = met
                      /\ api_calls' = Append(api_calls,
                             Request(delete_scope_type, owner_id, waiver_id, del_i))
                      /\ IF Truthy(success)
                         THEN /\ deleted_count' = CountDeleted(deleted_count)
                              /\ UNCHANGED failed_count
                         ELSE /\ failed_count' = CountFailure(failed_count)
                              /\ UNCHANGED deleted_count
                      /\ del_i' = NextEntry(del_i, n, ~ Truthy(success))
    /\ processed' = Append(processed, del_i)
    /\ UNCHANGED << pc, df_waivers, current_utc_time, row_i,
                    expired_waivers_to_delete, confirm, prompts, marked,
                    expiry_time, skipped >>

\* The deletion loop is over: print the two counts.
DeletionComplete ==
    /\ pc = "delete"
    /\ del_i > Len(expired_waivers_to_delete)
    /\ pc' = "finished"
    /\ UNCHANGED << df_waivers, current_utc_time, row_i, expired_waivers_to_delete,
                    confirm, deleted_count, failed_count, del_i, response,
                    api_calls, prompts, processed, marked, expiry_time, skipped >>

Next ==
    \/ FindCsv
    \/ LoadCsv
    \/ SampleClock
    \/ IdentifyRow
    \/ NoExpired
    \/ ConfirmPrompt
    \/ DeleteIteration
    \/ DeletionComplete

Spec == Init /\ [][Next]_vars

(***************************************************************************)
(* The script on one-row exports, with every form of 'Expiration Date'     *)
(* text, every scope type, more clock readings and more answers            *)
(***************************************************************************)
\* Texts of every form and zone designator around the clock readings, the
\* missing cell, "banana" and "2024-13-40Z".
WideExpiryCells ==
    { ExpiryNaN, ExpiryBanana, ExpiryCell("other", 0, 0, "Z", 0) }
    \cup { ExpiryCell("seconds", secs, 0, "Z", 0) : secs \in {0, 1, 2} }
    \cup { ExpiryCell("seconds", secs, 0, "none", 0) : secs \in {0, 1, 2} }
    \cup { ExpiryCell("seconds", secs, 0, "offset", off) :
               secs \in {0, 1, 2}, off \in {-1, 1} }
    \cup { ExpiryCell("fraction", secs, frac, "Z", 0) :
               secs \in {0, 1, 2}, frac \in {0, 1} }
    \cup { ExpiryCell("fraction", secs, frac, "none", 0) :
               secs \in {1}, frac \in {0, 1} }
    \cup { ExpiryCell("fraction", secs, frac, "offset", off) :
               secs \in {0, 1, 2}, frac \in {0, 1}, off \in {-1, 1} }

WideRows ==
    [ WaiverId : {"W1"}, ScopeType : DOMAIN SCOPE_TYPE_MAP \cup {"unknown_kind"},
      ScopeId : {"org-1"}, ExpirationDate : WideExpiryCells ]

\* The exports of one row.
WideFrames == { <<row>> : row \in WideRows }

WideClockReadings == { Instant(1, 0), Instant(1, 1), Instant(2, 0) }

WideAnswers ==
    Answers \cup
    { <<"D", "e", "l", "e", "t", "e">>,
      <<"\t", "D", "E", "L", "E", "T", "E">>,
      <<"D", "E", "L", "E", "T", "E", "D">>,
      <<"D", "E", "L", " ", "E", "T", "E">>,
      <<"y", "e", "s">>,
      <<" ">> }

LoadCsvWide == LoadCsvFrom(WideFrames)

SampleClockWide == SampleClockAt(WideClockReadings)

ConfirmPromptWide == ConfirmPromptWith(WideAnswers)

NextWide ==
    \/ FindCsv
    \/ LoadCsvWide
    \/ SampleClockWide
    \/ IdentifyRow
    \/ NoExpired
    \/ ConfirmPromptWide
    \/ DeleteIteration
    \/ DeletionComplete

SpecWide == Init /\ [][NextWide]_vars

(***************************************************************************)
(* The script as a process that keeps running: every call it makes         *)
(* returns, requests.request within its timeout of 30 seconds              *)
(***************************************************************************)
LiveRows ==
    [ WaiverId : {"W1"}, ScopeType : ScopeTypeCells, ScopeId : ScopeIdCells,
      ExpirationDate : { ExpiryBanana, ExpiryCell("seconds", 0, 0, "Z", 0) } ]

LiveFrames == SeqUpTo(LiveRows, MaxRows)

LoadCsvLive == LoadCsvFrom(LiveFrames)

NextLive ==
    \/ FindCsv
    \/ LoadCsvLive
    \/ SampleClock
    \/ IdentifyRow
    \/ NoExpired
    \/ ConfirmPrompt
    \/ DeleteIteration
    \/ DeletionComplete

FairSpec == Init /\ [][NextLive]_vars /\ WF_vars(NextLive)

(***************************************************************************)
(* Properties                                                              *)
(***************************************************************************)
\* The text the answer is compared with.
DELETE == <<"D", "E", "L", "E", "T", "E">>

\* The operator was asked and the answer, trimmed and upper-cased, is DELETE.
Granted == prompts # <<>> /\ upper(strip(confirm)) = DELETE

\* The operator was asked and gave another answer.
Declined == prompts # <<>> /\ upper(strip(confirm)) # DELETE

\* The row of the data frame the k-th request is about.
RowOfCall(k) == df_waivers[marked[api_calls[k].entry]]

\* The row's expiration is present, parses, and is strictly earlier than the
\* sampled clock.
RowHasPassed(row) ==
    /\ row.ExpirationDate.form # "nan"
    /\ parse_waiver_datetime(row.ExpirationDate).ok
    /\ Earlier(parse_waiver_datetime(row.ExpirationDate).at, current_utc_time)

\* C1: every DELETE request is about a row whose expiration is present,
\* parses, and is strictly earlier than the sampled clock.
C1_DeleteOnlyExpired ==
    \A k \in 1..Len(api_calls) :
        /\ api_calls[k].method = "DELETE"
        /\ RowHasPassed(RowOfCall(k))
        /\ expired_waivers_to_delete[api_calls[k].entry] = Entry(RowOfCall(k))

\* C1 witness: the run is over, a request was sent for an expired row of an
\* export that also holds a row that has not expired.
C1_Witness ==
    /\ pc = "finished"
    /\ api_calls # <<>>
    /\ \E i \in 1..Len(df_waivers) : ~ RowHasPassed(df_waivers[i])

\* C2: when the deletion loop has finished after a granted confirmation the
\* two counts add up to the number of expired entries; after a declined
\* confirmation both counts are 0.
C2_CountsAddUp ==
    /\ (pc = "finished" /\ Granted) =>
           deleted_count + failed_count = Len(expired_waivers_to_delete)
    /\ Declined => (deleted_count = 0 /\ failed_count = 0)

\* C2 witness: a granted run over two entries ended with one deleted and one
\* failed.
C2_Witness ==
    /\ pc = "finished"
    /\ Granted
    /\ Len(expired_waivers_to_delete) = 2
    /\ deleted_count = 1
    /\ failed_count = 1

\* C3: after a declined confirmation the run is over, no request was sent,
\* no entry was taken by the deletion loop and both counts are 0.
C3_CancelNoCalls ==
    Declined =>
        /\ pc = "finished"
        /\ api_calls = <<>>
        /\ processed = <<>>
        /\ deleted_count = 0
        /\ failed_count = 0

\* C3 witness: the operator declined a non-empty answer although an entry
\* with a known scope and a scope id was listed.
C3_Witness ==
    /\ Declined
    /\ confirm # <<>>
    /\ \E i \in 1..Len(expired_waivers_to_delete) :
           /\ expired_waivers_to_delete[i].ScopeType \in DOMAIN SCOPE_TYPE_MAP
           /\ expired_waivers_to_delete[i].ScopeId # NaN

\* C4: while the expired list is empty no prompt was shown and no request
\* sent, and the counts are 0.
C4_EmptyNoPrompt ==
    expired_waivers_to_delete = <<>> =>
        /\ prompts = <<>>
        /\ api_calls = <<>>
        /\ deleted_count = 0
        /\ failed_count = 0

\* C4 witness: a run over a non-empty export ended with nothing marked.
C4_Witness ==
    /\ pc = "finished"
    /\ df_waivers # <<>>
    /\ expired_waivers_to_delete = <<>>

\* C5: the prompt is shown at most once; a run that ends with an expired
\* entry has shown it once; it is shown after every row was identified and
\* before any request; a request is sent only after a granted confirmation.
C5_PromptOnceBeforeDelete ==
    /\ Len(prompts) <= 1
    /\ (pc = "finished" /\ expired_waivers_to_delete # <<>>) => Len(prompts) = 1
    /\ \A k \in 1..Len(prompts) :
           /\ prompts[k].rows_done = Len(df_waivers)
           /\ prompts[k].calls = 0
    /\ (api_calls # <<>> \/ processed # <<>>) => Granted

\* C5 witness: a run over two rows has prompted once and then sent a request.
C5_Witness ==
    /\ Len(df_waivers) = 2
    /\ Len(prompts) = 1
    /\ Len(api_calls) = 1

\* C6: the deletion loop takes the entries one by one in order, each once;
\* when it has finished it has taken every entry; no entry has two requests.
C6_EachEntryOnce ==
    /\ \A k \in 1..Len(processed) : processed[k] = k
    /\ Len(processed) <= Len(expired_waivers_to_delete)
    /\ (pc = "finished" /\ Granted) =>
           Len(processed) = Len(expired_waivers_to_delete)
    /\ \A j, k \in 1..Len(api_calls) :
           j < k => api_calls[j].entry < api_calls[k].entry

\* C6 witness: the first entry failed for its unknown scope, and the second
\* was still taken and had its request sent.
C6_Witness ==
    /\ pc = "finished"
    /\ processed = <<1, 2>>
    /\ expired_waivers_to_delete[1].ScopeType \notin DOMAIN SCOPE_TYPE_MAP
    /\ Len(api_calls) = 1
    /\ api_calls[1].entry = 2

\* C7: a step counts an entry as deleted only if its request was answered
\* with status 204.
C7_DeletedOnly204 ==
    [][deleted_count' = deleted_count + 1 =>
           (response'.transport = "ok" /\ response'.status = 204)]_vars

\* The deletion loop is about to take an entry.
AtEntry == pc = "delete" /\ del_i <= Len(expired_waivers_to_delete)

\* The step counts one failure, no deletion, sends no request and leaves the
\* loop at the next entry.
FailsWithoutCall ==
    /\ failed_count' = failed_count + 1
    /\ deleted_count' = deleted_count
    /\ api_calls' = api_calls
    /\ pc' = "delete"
    /\ del_i' = del_i + 1

\* C8: for an entry whose scope type is not in the mapping the loop counts
\* one failure, no deletion, sends no request and goes on to the next entry.
C8_UnknownScope ==
    [][(AtEntry /\ expired_waivers_to_delete[del_i].ScopeType
                      \notin DOMAIN SCOPE_TYPE_MAP)
           => FailsWithoutCall]_vars

\* C8 witness: the first of two entries had an unknown scope type; it was
\* counted failed without a request and the loop stands at the second.
C8_Witness ==
    /\ pc = "delete"
    /\ Len(expired_waivers_to_delete) = 2
    /\ expired_waivers_to_delete[1].ScopeType = "unknown_kind"
    /\ processed = <<1>>
    /\ del_i = 2
    /\ failed_count = 1
    /\ deleted_count = 0
    /\ api_calls = <<>>

\* C9: for an entry with a known scope type and an absent or empty scope id
\* the loop counts one failure, no deletion, sends no request and goes on to
\* the next entry.
C9_MissingScopeId ==
    [][(AtEntry /\ expired_waivers_to_delete[del_i].ScopeType
                      \in DOMAIN SCOPE_TYPE_MAP
                /\ expired_waivers_to_delete[del_i].ScopeId \in {NaN, ""})
           => FailsWithoutCall]_vars

\* C9 witness: the first of two entries had a known scope type and no scope
\* id; it was counted failed without a request and the loop stands at the
\* second.
C9_Witness ==
    /\ pc = "delete"
    /\ Len(expired_waivers_to_delete) = 2
    /\ expired_waivers_to_delete[1].ScopeType = "root_organization"
    /\ expired_waivers_to_delete[1].ScopeId = NaN
    /\ processed = <<1>>
    /\ del_i = 2
    /\ failed_count = 1
    /\ deleted_count = 0
    /\ api_calls = <<>>

\* C10: a row without a waiver id is never put in the expired list and no
\* request is ever sent for it.
C10_NoIdNotActionable ==
    /\ \A i \in 1..Len(expired_waivers_to_delete) :
           expired_waivers_to_delete[i].WaiverId # NaN
    /\ \A k \in 1..Len(api_calls) : api_calls[k].endpoint[4] # NaN

\* The text follows one of the three accepted profiles: seconds with Z,
\* fractional seconds with Z, seconds with a numeric offset.
InProfile(text) ==
    \/ text.form = "seconds" /\ text.zone = "Z"
    \/ text.form = "fraction" /\ text.zone = "Z"
    \/ text.form = "seconds" /\ text.zone = "offset"

\* The UTC instant a text of an accepted profile spells: its wall-clock
\* reading less its offset.
SpeltInstant(text) ==
    Instant(text.secs - (IF text.zone = "offset" THEN text.off ELSE 0),
            IF text.form = "fraction" THEN text.frac ELSE 0)

\* Row i has been through the identification loop.
Identified(i) ==
    /\ pc \in {"identify", "delete", "finished"}
    /\ i \in 1..Len(df_waivers)
    /\ i < row_i

\* Row i was put in the expired list.
IsMarked(i) == \E k \in 1..Len(marked) : marked[k] = i

\* C11: an identified row is in the expired list if and only if its
\* expiration is a text of an accepted profile and the UTC instant it spells
\* is strictly earlier than the sampled clock.
C11_ExpiredIffStrictlyEarlier ==
    \A i \in 1..Len(df_waivers) :
        Identified(i) =>
            LET cell == df_waivers[i].ExpirationDate
            IN  IsMarked(i) <=>
                    /\ cell.form # "nan"
                    /\ InProfile(cell)
                    /\ Earlier(SpeltInstant(cell), current_utc_time)

\* C11 witness: a row whose text with offset spells the very instant of the
\* clock was identified and not marked.
C11_Witness ==
    /\ Identified(1)
    /\ df_waivers[1].ExpirationDate = ExpiryCell("seconds", 0, 0, "offset", -1)
    /\ current_utc_time = Instant(1, 0)
    /\ ~ IsMarked(1)
    /\ pc = "finished"

\* What the normalizer is to return for a text.
Normalized(text) ==
    IF InProfile(text) THEN Parsed(SpeltInstant(text)) ELSE None

\* C16: for a text cell the normalizer returns the instant the text spells
\* when the text follows an accepted profile and None for every other text;
\* for the missing cell it returns None.
C16_NormalizerProfiles ==
    /\ parse_waiver_datetime(ExpiryNaN) = None
    /\ (Identified(1) /\ row_i = 2 /\ df_waivers[1].ExpirationDate.form # "nan")
           => expiry_time = Normalized(df_waivers[1].ExpirationDate)

\* C16 witness: a text with fractional seconds and a numeric offset went
\* through the normalizer, which returned None, and the row was skipped.
C16_Witness ==
    /\ Identified(1)
    /\ df_waivers[1].ExpirationDate.form = "fraction"
    /\ df_waivers[1].ExpirationDate.zone = "offset"
    /\ expiry_time = None
    /\ Len(skipped) = 1

\* The answers of WideAnswers that read DELETE once surrounding whitespace is
\* removed and letters are upper-cased.
GrantingAnswers ==
    { <<"D", "E", "L", "E", "T", "E">>,
      <<" ", "d", "e", "l", "e", "t", "e", " ">>,
      <<"D", "e", "l", "e", "t", "e">>,
      <<"\t", "D", "E", "L", "E", "T", "E">> }

\* The deletion phase was entered.
DeletionEntered == pc = "delete" \/ processed # <<>>

\* C18: once the operator has answered, the deletion phase is entered if and
\* only if the answer is a granting one; after any other answer the run is
\* over with no request sent.
C18_GrantedIffDelete ==
    prompts # <<>> =>
        /\ DeletionEntered <=> confirm \in GrantingAnswers
        /\ confirm \notin GrantingAnswers => (pc = "finished" /\ api_calls = <<>>)

\* C18 witness: the padded lower-case answer was given and the deletion loop
\* took an entry.
C18_Witness ==
    /\ confirm = <<" ", "d", "e", "l", "e", "t", "e", " ">>
    /\ processed = <<1>>

\* Row i had a WARN line.
IsSkipped(i) == \E k \in 1..Len(skipped) : skipped[k].row = i

\* C12: the expired list holds the marked rows in input order; an identified
\* row is marked exactly when its expiration has passed, has a WARN line with
\* its id and raw text exactly when its expiration is a text that does not
\* parse, and is otherwise in neither; once the loop is over every row was
\* identified, the rows after an unparseable one included.
C12_StablePartition ==
    /\ Len(expired_waivers_to_delete) = Len(marked)
    /\ \A k \in 1..Len(marked) :
           expired_waivers_to_delete[k] = Entry(df_waivers[marked[k]])
    /\ \A j, k \in 1..Len(marked) : j < k => marked[j] < marked[k]
    /\ \A j, k \in 1..Len(skipped) : j < k => skipped[j].row < skipped[k].row
    /\ \A k \in 1..Len(skipped) :
           /\ skipped[k].id = df_waivers[skipped[k].row].WaiverId
           /\ skipped[k].raw = df_waivers[skipped[k].row].ExpirationDate
    /\ \A i \in 1..Len(df_waivers) :
           /\ ~ (IsMarked(i) /\ IsSkipped(i))
           /\ (IsMarked(i) \/ IsSkipped(i)) => Identified(i)
           /\ Identified(i) =>
                  LET cell == df_waivers[i].ExpirationDate
                  IN  /\ IsMarked(i) <=>
                             /\ cell.form # "nan"
                             /\ InProfile(cell)
                             /\ Earlier(SpeltInstant(cell), current_utc_time)
                      /\ IsSkipped(i) <=> (cell.form # "nan" /\ ~ InProfile(cell))
    /\ pc \in {"delete", "finished"} => row_i = Len(df_waivers) + 1

\* C12 witness: of two rows the first had the text "banana" and the second
\* had expired; the first has its WARN line and the second is the expired
\* list.
C12_Witness ==
    /\ Len(df_waivers) = 2
    /\ df_waivers[1].ExpirationDate = ExpiryBanana
    /\ row_i = 3
    /\ marked = <<2>>
    /\ Len(skipped) = 1
    /\ skipped[1].row = 1

\* The path token of a scope kind.
PathToken(kind) ==
    CASE kind = "root_organization" -> "organization"
      [] kind = "organization" -> "organization"
      [] kind = "application" -> "application"
      [] kind = "repository" -> "repository"
      [] kind = "repository_container" -> "repository_container"
      [] OTHER -> "no token"

\* C13: every request is addressed by the path token of the scope kind, the
\* scope id and the waiver id of the one entry it was sent for.
C13_AddressFromOneEntry ==
    \A k \in 1..Len(api_calls) :
        LET waiver == expired_waivers_to_delete[api_calls[k].entry]
        IN  api_calls[k].endpoint =
                << "policyWaivers", PathToken(waiver.ScopeType), waiver.ScopeId,
                   waiver.WaiverId >>

\* C13 witness: two requests were sent for two root_organization entries
\* with different waiver ids, each under the token organization.
C13_Witness ==
    /\ Len(api_calls) = 2
    /\ expired_waivers_to_delete[1].ScopeType = "root_organization"
    /\ api_calls[1].endpoint[2] = "organization"
    /\ api_calls[2].endpoint[2] = "organization"
    /\ api_calls[1].endpoint[4] # api_calls[2].endpoint[4]

\* The server answered with an error status.
ServerRejected(r) == r.transport = "ok" /\ r.status \in 400..599

\* No usable answer: timeout, connection failure, or a body that is no JSON.
TransportFailed(r) ==
    \/ r.transport \in {"timeout", "connection_error"}
    \/ r.transport = "ok" /\ r.status \notin 400..599 /\ r.body = "not_json"

\* The server acknowledged the deletion.
ConfirmedSuccess(r) == r.transport = "ok" /\ r.status = 204

\* C14: a step that sends a request counts one failure and no deletion when
\* the server rejects it or the transport fails, and one deletion and no
\* failure when the server acknowledges it.
C14_OutcomeCounts ==
    [][api_calls' # api_calls =>
           /\ (ServerRejected(response') \/ TransportFailed(response')) =>
                  (failed_count' = failed_count + 1 /\ deleted_count' = deleted_count)
           /\ ConfirmedSuccess(response') =>
                  (deleted_count' = deleted_count + 1 /\ failed_count' = failed_count)
      ]_vars

\* C14 witness: the first request was acknowledged and the second rejected
\* by the server: one deleted, one failed.
C14_Witness ==
    /\ Len(api_calls) = 2
    /\ ServerRejected(response)
    /\ deleted_count = 1
    /\ failed_count = 1

\* C15: once the confirmation is granted the run reaches its end with every
\* expired entry taken by the deletion loop.
C15_DeletionCompletes ==
    Granted ~> (pc = "finished" /\ Len(processed) = Len(expired_waivers_to_delete))

\* C15 witness: a granted run over two entries is over, both were taken, and
\* the last request had timed out.
C15_Witness ==
    /\ pc = "finished"
    /\ Granted
    /\ Len(processed) = 2
    /\ response.transport = "timeout"

\* C17: requests follow the order of the expired list, which is the order of
\* the rows; while the loop runs, every entry before the one it takes next
\* has been taken and counted, and every request sent has been answered.
C17_OneAtATimeInOrder ==
    /\ \A j, k \in 1..Len(api_calls) :
           j < k => /\ api_calls[j].entry < api_calls[k].entry
                    /\ marked[api_calls[j].entry] < marked[api_calls[k].entry]
    /\ pc = "delete" =>
           /\ del_i = Len(processed) + 1
           /\ deleted_count + failed_count = Len(processed)
    /\ Len(api_calls) <= Len(processed)
    /\ api_calls # <<>> => response # NoResponse

\* C17 witness: two requests were sent, for the first and then the second
\* entry, made from the first and the second row.
C17_Witness ==
    /\ Len(api_calls) = 2
    /\ api_calls[1].entry = 1
    /\ api_calls[2].entry = 2
    /\ marked = <<1, 2>>

\* C19: the clock reading changes only where it is sampled, before the first
\* row is identified; from the prompt on the expired list is the list shown
\* to the operator and never changes; the deletion loop ends having taken
\* exactly the entries of that list.
C19_ClockAndListFixed ==
    [][/\ pc # "sample_clock" => current_utc_time' = current_utc_time
       /\ prompts # <<>> =>
              (expired_waivers_to_delete' = expired_waivers_to_delete /\ prompts' = prompts)
       /\ prompts' # <<>> => prompts'[1].listed = expired_waivers_to_delete'
       /\ \A k \in 1..Len(processed') : processed'[k] = k /\ k <= Len(prompts'[1].listed)
       /\ (pc = "delete" /\ pc' = "finished") => Len(processed') = Len(prompts'[1].listed)
      ]_vars

\* C19 witness: a granted run that listed two entries is over and took both.
C19_Witness ==
    /\ pc = "finished"
    /\ Len(prompts) = 1
    /\ Len(prompts[1].listed) = 2
    /\ processed = <<1, 2>>
    /\ prompts[1].listed = expired_waivers_to_delete

====
